---- MODULE Spec2Model ----
(***************************************************************************)
(* A model of FAQHandler (src/faq/faq_handler.py): the question/answer      *)
(* corpus, its persistence, the embedding cache built at construction, the *)
(* embedding path and the lexical fallback of answer_question, and         *)
(* get_similar_questions.                                                  *)
(*                                                                         *)
(* Text is a sequence of one-character strings, so that lower(), split()   *)
(* and the substring test `word in text` are computed character by         *)
(* character as Python computes them.  Similarity scores are in hundredths *)
(* (30 is 0.3); lexical scores are exact fractions <<num, den>>.           *)
(***************************************************************************)
EXTENDS Integers, Sequences, FiniteSets, TLC

VARIABLES
    faq_file,             \* the persisted corpus document (self.faq_file on disk)
    faq_data,             \* self.faq_data
    model,                \* self.model: TRUE when the SentenceTransformer was constructed
    question_embeddings,  \* self.question_embeddings: unset, None, or the cached matrix
    questions_list,       \* self.questions_list: unset, or the question texts as cached
    appended,             \* history: <<category key, position>> of entries appended since caching
    n_adds,               \* history: number of add_question calls so far
    call,                 \* the last call: its operation, arguments, path taken and result
    vision,               \* the VisionAPI object and the requests it posted
    monitor               \* the PerformanceMonitor object

vars ==
    <<faq_file, faq_data, model, question_embeddings, questions_list, appended, n_adds, call,
      vision, monitor>>

\* The services next to the FAQ handler.
services == <<vision, monitor>>

(***************************************************************************)
(* Bounds of the model.                                                    *)
(***************************************************************************)
MaxAdds == 2
MaxTopK == 2
MaxPosts == 2
MaxCalls == 5

(***************************************************************************)
(* Text: str.lower(), str.split(), `in`.                                   *)
(***************************************************************************)
\* The lowercase of every uppercase letter.
UpperToLower ==
    ( "A" :> "a" @@ "B" :> "b" @@ "C" :> "c" @@ "D" :> "d" @@ "E" :> "e" @@ "F" :> "f" @@ "G"
      :> "g" @@ "H" :> "h" @@ "I" :> "i" @@ "J" :> "j" @@ "K" :> "k" @@ "L" :> "l" @@ "M" :>
      "m" @@ "N" :> "n" @@ "O" :> "o" @@ "P" :> "p" @@ "Q" :> "q" @@ "R" :> "r" @@ "S" :> "s"
      @@ "T" :> "t" @@ "U" :> "u" @@ "V" :> "v" @@ "W" :> "w" @@ "X" :> "x" @@ "Y" :> "y" @@
      "Z" :> "z" )

\* One character of str.lower().
LowerChar(c) == IF c \in DOMAIN UpperToLower THEN UpperToLower[c] ELSE c

\* str.lower()
Lower(s) == [i \in 1..Len(s) |-> LowerChar(s[i])] \o <<>>

\* The characters str.split() treats as separators.
Whitespace == {" ", "\t", "\n", "\r"}

\* str.split() with no argument yields the maximal runs of non-whitespace characters.
\* The handler only builds set(...) of them or asks any(...) over them, so they are kept
\* as a set.
TokenStarts(s) ==
    {i \in 1..Len(s) : s[i] \notin Whitespace /\ (i = 1 \/ s[i - 1] \in Whitespace)}
TokenAt(s, i) ==
    SubSeq(s, i, CHOOSE j \in i..Len(s) :
                    /\ \A k \in i..j : s[k] \notin Whitespace
                    /\ (j = Len(s) \/ s[j + 1] \in Whitespace))
Split(s) == {TokenAt(s, i) : i \in TokenStarts(s)}

\* `word in text` on two strings: word occurs in text as a substring.
Contains(text, word) ==
    \E i \in 1..(Len(text) - Len(word) + 1) :
        \A j \in 1..Len(word) : text[i + j - 1] = word[j]

Max(a, b) == IF a >= b THEN a ELSE b
Min(a, b) == IF a <= b THEN a ELSE b

(***************************************************************************)
(* The texts of the built-in corpus and the fixed uncertain-answer message. *)
(***************************************************************************)
\* "What can this photo assistant do?"
Q_WhatCanDo ==
    <<"W","h","a","t"," ","c","a","n"," ","t","h","i","s"," ","p","h","o","t","o"," ","a","s","s",
    "i","s","t","a","n","t"," ","d","o","?">>
\* "This photo assistant can analyze images to detect objects, extract text, identify scenes, and answer questions about photos using AI-powered vision and language models."
A_WhatCanDo ==
    <<"T","h","i","s"," ","p","h","o","t","o"," ","a","s","s","i","s","t","a","n","t"," ","c","a",
    "n"," ","a","n","a","l","y","z","e"," ","i","m","a","g","e","s"," ","t","o"," ","d","e","t",
    "e","c","t"," ","o","b","j","e","c","t","s",","," ","e","x","t","r","a","c","t"," ","t","e",
    "x","t",","," ","i","d","e","n","t","i","f","y"," ","s","c","e","n","e","s",","," ","a","n",
    "d"," ","a","n","s","w","e","r"," ","q","u","e","s","t","i","o","n","s"," ","a","b","o","u",
    "t"," ","p","h","o","t","o","s"," ","u","s","i","n","g"," ","A","I","-","p","o","w","e","r",
    "e","d"," ","v","i","s","i","o","n"," ","a","n","d"," ","l","a","n","g","u","a","g","e"," ",
    "m","o","d","e","l","s",".">>
\* "How do I upload a photo?"
Q_Upload ==
    <<"H","o","w"," ","d","o"," ","I"," ","u","p","l","o","a","d"," ","a"," ","p","h","o","t","o",
    "?">>
\* "You can upload photos through the web interface by clicking the upload button and selecting an image file from your device."
A_Upload ==
    <<"Y","o","u"," ","c","a","n"," ","u","p","l","o","a","d"," ","p","h","o","t","o","s"," ","t",
    "h","r","o","u","g","h"," ","t","h","e"," ","w","e","b"," ","i","n","t","e","r","f","a","c",
    "e"," ","b","y"," ","c","l","i","c","k","i","n","g"," ","t","h","e"," ","u","p","l","o","a",
    "d"," ","b","u","t","t","o","n"," ","a","n","d"," ","s","e","l","e","c","t","i","n","g"," ",
    "a","n"," ","i","m","a","g","e"," ","f","i","l","e"," ","f","r","o","m"," ","y","o","u","r",
    " ","d","e","v","i","c","e",".">>
\* "What file formats are supported?"
Q_Formats ==
    <<"W","h","a","t"," ","f","i","l","e"," ","f","o","r","m","a","t","s"," ","a","r","e"," ","s",
    "u","p","p","o","r","t","e","d","?">>
\* "The assistant supports common image formats including JPEG, PNG, GIF, and WebP files."
A_Formats ==
    <<"T","h","e"," ","a","s","s","i","s","t","a","n","t"," ","s","u","p","p","o","r","t","s"," ",
    "c","o","m","m","o","n"," ","i","m","a","g","e"," ","f","o","r","m","a","t","s"," ","i","n",
    "c","l","u","d","i","n","g"," ","J","P","E","G",","," ","P","N","G",","," ","G","I","F",",",
    " ","a","n","d"," ","W","e","b","P"," ","f","i","l","e","s",".">>
\* "What information can you extract from photos?"
Q_Extract ==
    <<"W","h","a","t"," ","i","n","f","o","r","m","a","t","i","o","n"," ","c","a","n"," ","y","o",
    "u"," ","e","x","t","r","a","c","t"," ","f","r","o","m"," ","p","h","o","t","o","s","?">>
\* "I can detect objects, recognize text (OCR), identify scenes and concepts, detect faces, and provide detailed descriptions of image content."
A_Extract ==
    <<"I"," ","c","a","n"," ","d","e","t","e","c","t"," ","o","b","j","e","c","t","s",","," ","r",
    "e","c","o","g","n","i","z","e"," ","t","e","x","t"," ","(","O","C","R",")",","," ","i","d",
    "e","n","t","i","f","y"," ","s","c","e","n","e","s"," ","a","n","d"," ","c","o","n","c","e",
    "p","t","s",","," ","d","e","t","e","c","t"," ","f","a","c","e","s",","," ","a","n","d"," ",
    "p","r","o","v","i","d","e"," ","d","e","t","a","i","l","e","d"," ","d","e","s","c","r","i",
    "p","t","i","o","n","s"," ","o","f"," ","i","m","a","g","e"," ","c","o","n","t","e","n","t",
    ".">>
\* "How accurate is the analysis?"
Q_Accurate ==
    <<"H","o","w"," ","a","c","c","u","r","a","t","e"," ","i","s"," ","t","h","e"," ","a","n","a",
    "l","y","s","i","s","?">>
\* "The analysis uses state-of-the-art AI models with high accuracy, though results may vary depending on image quality and content complexity."
A_Accurate ==
    <<"T","h","e"," ","a","n","a","l","y","s","i","s"," ","u","s","e","s"," ","s","t","a","t","e",
    "-","o","f","-","t","h","e","-","a","r","t"," ","A","I"," ","m","o","d","e","l","s"," ","w",
    "i","t","h"," ","h","i","g","h"," ","a","c","c","u","r","a","c","y",","," ","t","h","o","u",
    "g","h"," ","r","e","s","u","l","t","s"," ","m","a","y"," ","v","a","r","y"," ","d","e","p",
    "e","n","d","i","n","g"," ","o","n"," ","i","m","a","g","e"," ","q","u","a","l","i","t","y",
    " ","a","n","d"," ","c","o","n","t","e","n","t"," ","c","o","m","p","l","e","x","i","t","y",
    ".">>
\* "Can you read text in images?"
Q_ReadText ==
    <<"C","a","n"," ","y","o","u"," ","r","e","a","d"," ","t","e","x","t"," ","i","n"," ","i","m",
    "a","g","e","s","?">>
\* "Yes, I can extract and read text from images using optical character recognition (OCR) technology."
A_ReadText ==
    <<"Y","e","s",","," ","I"," ","c","a","n"," ","e","x","t","r","a","c","t"," ","a","n","d"," ",
    "r","e","a","d"," ","t","e","x","t"," ","f","r","o","m"," ","i","m","a","g","e","s"," ","u",
    "s","i","n","g"," ","o","p","t","i","c","a","l"," ","c","h","a","r","a","c","t","e","r"," ",
    "r","e","c","o","g","n","i","t","i","o","n"," ","(","O","C","R",")"," ","t","e","c","h","n",
    "o","l","o","g","y",".">>
\* "How do I ask questions about my photos?"
Q_AskQuestions ==
    <<"H","o","w"," ","d","o"," ","I"," ","a","s","k"," ","q","u","e","s","t","i","o","n","s"," ",
    "a","b","o","u","t"," ","m","y"," ","p","h","o","t","o","s","?">>
\* "After uploading a photo, you can type questions in the chat interface. Ask about objects, colors, text, or any other aspects of the image."
A_AskQuestions ==
    <<"A","f","t","e","r"," ","u","p","l","o","a","d","i","n","g"," ","a"," ","p","h","o","t","o",
    ","," ","y","o","u"," ","c","a","n"," ","t","y","p","e"," ","q","u","e","s","t","i","o","n",
    "s"," ","i","n"," ","t","h","e"," ","c","h","a","t"," ","i","n","t","e","r","f","a","c","e",
    "."," ","A","s","k"," ","a","b","o","u","t"," ","o","b","j","e","c","t","s",","," ","c","o",
    "l","o","r","s",","," ","t","e","x","t",","," ","o","r"," ","a","n","y"," ","o","t","h","e",
    "r"," ","a","s","p","e","c","t","s"," ","o","f"," ","t","h","e"," ","i","m","a","g","e",".">>
\* "What types of questions work best?"
Q_WorkBest ==
    <<"W","h","a","t"," ","t","y","p","e","s"," ","o","f"," ","q","u","e","s","t","i","o","n","s",
    " ","w","o","r","k"," ","b","e","s","t","?">>
\* "Specific questions work best, such as 'What objects do you see?', 'Is there text in this image?', or 'Describe the colors in this photo.'"
A_WorkBest ==
    <<"S","p","e","c","i","f","i","c"," ","q","u","e","s","t","i","o","n","s"," ","w","o","r","k",
    " ","b","e","s","t",","," ","s","u","c","h"," ","a","s"," ","'","W","h","a","t"," ","o","b",
    "j","e","c","t","s"," ","d","o"," ","y","o","u"," ","s","e","e","?","'",","," ","'","I","s",
    " ","t","h","e","r","e"," ","t","e","x","t"," ","i","n"," ","t","h","i","s"," ","i","m","a",
    "g","e","?","'",","," ","o","r"," ","'","D","e","s","c","r","i","b","e"," ","t","h","e"," ",
    "c","o","l","o","r","s"," ","i","n"," ","t","h","i","s"," ","p","h","o","t","o",".","'">>
\* "Can you compare multiple photos?"
Q_Compare ==
    <<"C","a","n"," ","y","o","u"," ","c","o","m","p","a","r","e"," ","m","u","l","t","i","p","l",
    "e"," ","p","h","o","t","o","s","?">>
\* "Currently, the assistant analyzes one photo at a time. You can upload different photos sequentially for comparison."
A_Compare ==
    <<"C","u","r","r","e","n","t","l","y",","," ","t","h","e"," ","a","s","s","i","s","t","a","n",
    "t"," ","a","n","a","l","y","z","e","s"," ","o","n","e"," ","p","h","o","t","o"," ","a","t",
    " ","a"," ","t","i","m","e","."," ","Y","o","u"," ","c","a","n"," ","u","p","l","o","a","d",
    " ","d","i","f","f","e","r","e","n","t"," ","p","h","o","t","o","s"," ","s","e","q","u","e",
    "n","t","i","a","l","l","y"," ","f","o","r"," ","c","o","m","p","a","r","i","s","o","n",".">>
\* "I couldn't find a specific answer to your question. Please try rephrasing or check the FAQ section for similar topics."
UncertainAnswer ==
    <<"I"," ","c","o","u","l","d","n","'","t"," ","f","i","n","d"," ","a"," ","s","p","e","c","i",
    "f","i","c"," ","a","n","s","w","e","r"," ","t","o"," ","y","o","u","r"," ","q","u","e","s",
    "t","i","o","n","."," ","P","l","e","a","s","e"," ","t","r","y"," ","r","e","p","h","r","a",
    "s","i","n","g"," ","o","r"," ","c","h","e","c","k"," ","t","h","e"," ","F","A","Q"," ","s",
    "e","c","t","i","o","n"," ","f","o","r"," ","s","i","m","i","l","a","r"," ","t","o","p","i",
    "c","s",".">>
\* "..."
A_Dots ==
    <<".",".",".">>
\* ""
QueryEmpty ==
    <<>>
\* ' \t'
QueryBlank ==
    <<" ","\t">>
\* "how do I upload"
QueryHowUpload ==
    <<"h","o","w"," ","d","o"," ","I"," ","u","p","l","o","a","d">>
\* "completely unrelated xyz"
QueryUnrelated ==
    <<"c","o","m","p","l","e","t","e","l","y"," ","u","n","r","e","l","a","t","e","d"," ","x","y",
    "z">>
\* "upload image"
QueryUploadImage ==
    <<"u","p","l","o","a","d"," ","i","m","a","g","e">>
\* "Can I delete a photo?"
NewQuestion ==
    <<"C","a","n"," ","I"," ","d","e","l","e","t","e"," ","a"," ","p","h","o","t","o","?">>
\* "Yes, from the gallery."
NewAnswer ==
    <<"Y","e","s",","," ","f","r","o","m"," ","t","h","e"," ","g","a","l","l","e","r","y",".">>
\* ""
EmptyAnswer ==
    <<>>

(***************************************************************************)
(* The corpus document.  `categories` is the ordered mapping of the JSON   *)
(* document (a Python dict keeps insertion order): a sequence of           *)
(* [key, questions].  has_categories / has_metadata say whether the        *)
(* document holds the "categories" / "metadata" key at all.  The display   *)
(* name of a category is read by no operation modelled here and is left    *)
(* out.                                                                    *)
(***************************************************************************)
QA(q, a) == [question |-> q, answer |-> a]

\* _get_default_faq_data(): 9 entries in 3 categories, total_questions 9.
DefaultFaqData ==
    [has_categories |-> TRUE,
     categories |->
        << [key |-> "general",
            questions |-> << QA(Q_WhatCanDo, A_WhatCanDo), QA(Q_Upload, A_Upload),
                             QA(Q_Formats, A_Formats) >>],
           [key |-> "analysis",
            questions |-> << QA(Q_Extract, A_Extract), QA(Q_Accurate, A_Accurate),
                             QA(Q_ReadText, A_ReadText) >>],
           [key |-> "usage",
            questions |-> << QA(Q_AskQuestions, A_AskQuestions), QA(Q_WorkBest, A_WorkBest),
                             QA(Q_Compare, A_Compare) >>] >>,
     has_metadata |-> TRUE,
     total_questions |-> 9]

\* A persisted document with the single entry "How do I upload a photo?" -> "...".
OneEntryFaqData ==
    [has_categories |-> TRUE,
     categories |-> << [key |-> "general", questions |-> << QA(Q_Upload, A_Dots) >>] >>,
     has_metadata |-> TRUE,
     total_questions |-> 1]

\* A persisted document with three entries in one category.
ThreeEntryFaqData ==
    [has_categories |-> TRUE,
     categories |->
        << [key |-> "general",
            questions |-> << QA(Q_WhatCanDo, A_WhatCanDo), QA(Q_Upload, A_Upload),
                             QA(Q_Formats, A_Formats) >>] >>,
     has_metadata |-> TRUE,
     total_questions |-> 3]

\* The persisted document {}: valid JSON holding neither "categories" nor "metadata".
BareFaqData ==
    [has_categories |-> FALSE, categories |-> <<>>, has_metadata |-> FALSE,
     total_questions |-> 0]

\* What the file at self.faq_file can hold when the handler is constructed.
InitialFiles ==
    { [state |-> "missing", content |-> BareFaqData],
      [state |-> "malformed", content |-> BareFaqData],
      [state |-> "unreadable", content |-> BareFaqData],
      [state |-> "document", content |-> OneEntryFaqData],
      [state |-> "document", content |-> ThreeEntryFaqData],
      [state |-> "document", content |-> BareFaqData] }

\* _load_faq_data() without its except clause answering with the default: a file that
\* cannot be read or parsed gives the empty document.
LoadFaqDataOnlyMissing(file) ==
    IF file.state = "document" THEN file.content
    ELSE IF file.state = "missing" THEN DefaultFaqData
    ELSE BareFaqData

\* _load_faq_data(): the parsed document, or the default when the file is missing or
\* reading or parsing it raises.
LoadFaqData(file) ==
    IF file.state = "document" THEN file.content ELSE DefaultFaqData

\* get_all_questions(): the questions of every category, in category then insertion order.
RECURSIVE Flatten(_)
Flatten(cats) ==
    IF cats = <<>> THEN <<>> ELSE Head(cats).questions \o Flatten(Tail(cats))
GetAllQuestions(data) ==
    IF data.has_categories THEN Flatten(data.categories) ELSE <<>>

\* The <<category key, position in the category>> of every flattened index.
RECURSIVE FlattenPlaces(_)
FlattenPlaces(cats) ==
    IF cats = <<>> THEN <<>>
    ELSE [i \in 1..Len(Head(cats).questions) |-> <<Head(cats).key, i>>]
         \o FlattenPlaces(Tail(cats))

(***************************************************************************)
(* The lexical fallback.  A score is the exact fraction <<num, den>>.       *)
(***************************************************************************)
FracGreater(a, b) == a[1] * b[2] > b[1] * a[2]

\* The keyword bonus given only for a whole token of the query, not for a substring.
KeywordBonusWholeTokens(question_lower, faq_question) ==
    IF Split(faq_question) \cap Split(question_lower) # {} THEN 5 ELSE 0

\* 0.5 when any token of the FAQ question occurs in the lowercased query text, else 0
\* (in tenths).
KeywordBonus(question_lower, faq_question) ==
    IF \E w \in (Split(faq_question)) : Contains(question_lower, w) THEN 5 ELSE 0

\* 0.3 when any token of the FAQ answer occurs in the lowercased query text, else 0
\* (in tenths).
AnswerBonus(question_lower, faq_answer) ==
    IF \E w \in (Split(faq_answer)) : Contains(question_lower, w) THEN 3 ELSE 0

\* The score the loop body gives one entry.
FallbackScore(question, qa) ==
    LET question_lower == Lower(question)
        faq_question == Lower(qa.question)
        faq_answer == Lower(qa.answer)
        question_words == (Split(question_lower))
        faq_words == (Split(faq_question))
        common_words == question_words \cap faq_words
        m == Max(Cardinality(question_words), Cardinality(faq_words))
        den == IF common_words = {} THEN 1 ELSE m
        bonus == KeywordBonus(question_lower, faq_question)
                 + AnswerBonus(question_lower, faq_answer)
    IN  << (IF common_words = {} THEN 0 ELSE 10 * Cardinality(common_words)) + bonus * den,
           10 * den >>

\* The loop with `score >= best_score`: the last of the entries that tie wins.
RECURSIVE FallbackLoopLastWins(_, _, _, _)
FallbackLoopLastWins(question, entries, i, best) ==
    IF i > Len(entries) THEN best
    ELSE LET score == FallbackScore(question, entries[i])
         IN  FallbackLoopLastWins(question, entries, i + 1,
                 IF ~FracGreater(best.score, score)
                 THEN [score |-> score, found |-> TRUE, match |-> entries[i].answer,
                       index |-> i]
                 ELSE best)

\* The loop over the entries: best_score starts at 0 and best_match at None; an entry
\* replaces the best only when its score is strictly greater.
RECURSIVE FallbackLoop(_, _, _, _)
FallbackLoop(question, entries, i, best) ==
    IF i > Len(entries) THEN best
    ELSE LET score == FallbackScore(question, entries[i])
         IN  FallbackLoop(question, entries, i + 1,
                 IF FracGreater(score, best.score)
                 THEN [score |-> score, found |-> TRUE, match |-> entries[i].answer,
                       index |-> i]
                 ELSE best)

FallbackBest(question, data) ==
    FallbackLoop(question, GetAllQuestions(data), 1,
                 [score |-> <<0, 1>>, found |-> FALSE, match |-> <<>>, index |-> 0])

\* _fallback_answer_question() with the threshold 1.0 in place of 0.2.
FallbackAnswerQuestionAboveOne(question, data) ==
    LET best == FallbackBest(question, data)
    IN  IF best.found /\ best.match # <<>> /\ FracGreater(best.score, <<10, 10>>)
        THEN best.match
        ELSE UncertainAnswer

\* _fallback_answer_question(): best_match when it is truthy and best_score > 0.2.
FallbackAnswerQuestion(question, data) ==
    LET best == FallbackBest(question, data)
    IN  IF best.found /\ best.match # <<>> /\ FracGreater(best.score, <<2, 10>>)
        THEN best.match
        ELSE UncertainAnswer

(***************************************************************************)
(* The embedding model.  SentenceTransformer('all-MiniLM-L6-v2') is an     *)
(* external model whose encode() maps a text to a vector; here it maps the *)
(* texts of the model to fixed integer vectors of norm 10.                 *)
(***************************************************************************)
\* model.encode([text])[0]
Embed(text) ==
    CASE text = Q_WhatCanDo -> << 3, 9, 3, 1 >>
      [] text = Q_Upload -> << 9, 3, 3, 1 >>
      [] text = Q_Formats -> << 1, 3, 3, 9 >>
      [] text = Q_Extract -> << 3, 1, 9, 3 >>
      [] text = Q_Accurate -> << 5, 5, 5, 5 >>
      [] text = Q_ReadText -> << 1, 1, 7, 7 >>
      [] text = Q_AskQuestions -> << 8, 6, 0, 0 >>
      [] text = Q_WorkBest -> << 0, 8, 6, 0 >>
      [] text = Q_Compare -> << -5, 5, 5, 5 >>
      [] text = NewQuestion -> << 7, 1, 1, 7 >>
      [] text = QueryHowUpload -> << 9, 3, 1, 3 >>
      [] text = QueryUploadImage -> << 9, 1, 3, 3 >>
      [] text = QueryUnrelated -> << -5, -5, -5, 5 >>
      [] OTHER -> << 6, -8, 0, 0 >>

\* model.encode(texts): one vector per text, in order.
Encode(texts) == [i \in 1..Len(texts) |-> Embed(texts[i])] \o <<>>

RECURSIVE Dot(_, _)
Dot(a, b) == IF a = <<>> THEN 0 ELSE Head(a) * Head(b) + Dot(Tail(a), Tail(b))

\* The Euclidean norm (the integer square root of the sum of squares).
Norm(v) == CHOOSE r \in 0..Dot(v, v) : r * r <= Dot(v, v) /\ Dot(v, v) < (r + 1) * (r + 1)

\* torch.cosine_similarity of two vectors, in hundredths: dot(a, b) / (|a| * |b|), and 0
\* when a norm is 0.
CosineSimilarity(a, b) ==
    LET norms == Norm(a) * Norm(b)
    IN  IF norms = 0 THEN 0 ELSE (100 * Dot(a, b)) \div norms

\* torch.cosine_similarity(question_embedding, self.question_embeddings): one score per
\* cached row.
Similarities(question, rows) ==
    [i \in 1..Len(rows) |-> CosineSimilarity(Embed(question), rows[i])] \o <<>>

\* torch.argmax: the first index holding the maximal value.
ArgMax(sims) ==
    CHOOSE i \in 1..Len(sims) :
        /\ \A j \in 1..Len(sims) : sims[j] <= sims[i]
        /\ \A j \in 1..(i - 1) : sims[j] < sims[i]

\* torch.topk(sims, k).indices: k indices in descending order of score.  The order of
\* equal scores is not specified by torch, so every such order is an outcome.
RECURSIVE TopKFrom(_, _, _)
TopKFrom(sims, remaining, k) ==
    IF k = 0 THEN { <<>> }
    ELSE UNION { { <<i>> \o rest : rest \in TopKFrom(sims, remaining \ {i}, k - 1) } :
                 i \in {i \in remaining : \A j \in remaining : sims[j] <= sims[i]} }
\* topk taking the smallest scores first (largest=False).
TopKSmallest(sims, k) ==
    TopKFrom([i \in 1..Len(sims) |-> 0 - sims[i]], 1..Len(sims), k)

TopK(sims, k) == TopKFrom(sims, 1..Len(sims), k)

(***************************************************************************)
(* The handler's state.                                                    *)
(***************************************************************************)
Unset == [state |-> "unset", rows |-> <<>>]
None == [state |-> "none", rows |-> <<>>]
Built(rows) == [state |-> "built", rows |-> rows]

\* The record of a call: the operation, its arguments, the path it took through the code,
\* whether an exception left it, and what it returned.
Idle ==
    [op |-> "idle", question |-> <<>>, category |-> "", answer |-> <<>>, top_k |-> 0,
     path |-> "", raised |-> FALSE, encodes |-> 0, saved |-> FALSE,
     ret_bool |-> FALSE, ret_text |-> <<>>, ret_list |-> <<>>,
     indices |-> <<>>, scores |-> <<>>]

\* The queries and the add_question arguments the model draws from.
Queries ==
    {QueryEmpty, QueryBlank, QueryHowUpload, QueryUnrelated, QueryUploadImage, Q_Upload,
     Q_Extract}
SimilarQueries == {QueryEmpty, QueryHowUpload, QueryUnrelated, Q_Extract}
TopKs == (-1)..MaxTopK
\* "general" is the first category of every document; "usage" is the last category of
\* the default corpus and is absent from the persisted documents.
AddInputs ==
    { [category |-> "general", question |-> NewQuestion, answer |-> NewAnswer],
      [category |-> "general", question |-> NewQuestion, answer |-> EmptyAnswer],
      [category |-> "usage", question |-> NewQuestion, answer |-> NewAnswer] }

\* The question texts of the flattened corpus.
QuestionsText(data) ==
    [i \in 1..Len(GetAllQuestions(data)) |-> GetAllQuestions(data)[i].question] \o <<>>

\* _initialize_embeddings() with a model: the cache of one vector per question and the
\* texts it was built from; when encoding raises, embeddings None and questions_list [].
InitializeEmbeddings(data, encode_raises) ==
    IF encode_raises
    THEN [question_embeddings |-> None, questions_list |-> Built(<<>>)]
    ELSE [question_embeddings |-> Built(Encode(QuestionsText(data))),
          questions_list |-> Built(QuestionsText(data))]

(***************************************************************************)
(* The services constructed next to the handler (api_docs.py lines 41-43,  *)
(* monitoring.py line 204).                                                *)
(***************************************************************************)
\* An optional string: None, or a text (which may be empty).
PyNone == [is_none |-> TRUE, text |-> ""]
Str(text) == [is_none |-> FALSE, text |-> text]
Truthy(value) == ~value.is_none /\ value.text # ""

\* Python's `a or b`: a when it is truthy, else b.
Or(a, b) == IF Truthy(a) THEN a ELSE b

\* VisionAPI.__init__(api_key) with GOOGLE_CLOUD_VISION_API_KEY holding env_key (None when
\* it is not set): the attributes it assigns, and no request posted yet.
\* `passed` and `env_key` keep what it was constructed from.
NewVisionAPI(api_key, env_key) ==
    [api_key |-> Or(api_key, env_key),
     attributes |-> {"api_key", "base_url"},
     posts |-> 0,
     passed |-> api_key,
     env_key |-> env_key]

\* PerformanceMonitor.__init__: the three counters at 0 and no metrics yet.
NewPerformanceMonitor ==
    [api_calls |-> 0, successful_calls |-> 0, error_calls |-> 0, metrics_history |-> <<>>]

\* __init__: the corpus is loaded; then either the SentenceTransformer constructor raises
\* (model None, no embedding attribute is ever set), or _initialize_embeddings runs.
Init ==
    /\ faq_file \in InitialFiles
    /\ faq_data = LoadFaqData(faq_file)
    /\ \E outcome \in {"constructor_raises", "encode_raises", "ok"} :
          /\ model = (outcome # "constructor_raises")
          /\ question_embeddings =
                IF outcome = "constructor_raises" THEN Unset
                ELSE InitializeEmbeddings(faq_data, outcome = "encode_raises").question_embeddings
          /\ questions_list =
                IF outcome = "constructor_raises" THEN Unset
                ELSE InitializeEmbeddings(faq_data, outcome = "encode_raises").questions_list
    /\ appended = {}
    /\ n_adds = 0
    /\ call = Idle
    /\ vision = NewVisionAPI(PyNone, PyNone)
    /\ monitor = NewPerformanceMonitor

(***************************************************************************)
(* add_question                                                            *)
(***************************************************************************)
HasCategory(data, category) ==
    data.has_categories /\ \E i \in 1..Len(data.categories) : data.categories[i].key = category

\* Lines 202-211 refusing a question its category already holds.
AppendEntryUnique(cats, category, qa) ==
    IF \E i \in 1..Len(cats) : cats[i].key = category
    THEN [i \in 1..Len(cats) |->
            IF /\ cats[i].key = category
               /\ \A n \in 1..Len(cats[i].questions) :
                     cats[i].questions[n].question # qa.question
            THEN [cats[i] EXCEPT !.questions = Append(@, qa)]
            ELSE cats[i]] \o <<>>
    ELSE Append(cats, [key |-> category, questions |-> <<qa>>])

\* The entry inserted in front of its category instead of appended to it.
AppendEntryInFront(cats, category, qa) ==
    IF \E i \in 1..Len(cats) : cats[i].key = category
    THEN [i \in 1..Len(cats) |->
            IF cats[i].key = category
            THEN [cats[i] EXCEPT !.questions = <<qa>> \o @]
            ELSE cats[i]] \o <<>>
    ELSE Append(cats, [key |-> category, questions |-> <<qa>>])

\* The categories after lines 202-211: the category is created when absent, and the entry
\* is appended to it.
AppendEntry(cats, category, qa) ==
    IF \E i \in 1..Len(cats) : cats[i].key = category
    THEN [i \in 1..Len(cats) |->
            IF cats[i].key = category
            THEN [cats[i] EXCEPT !.questions = Append(@, qa)]
            ELSE cats[i]] \o <<>>
    ELSE Append(cats, [key |-> category, questions |-> <<qa>>])

\* The number of entries of a category (0 when it is absent).
CategorySize(data, category) ==
    IF HasCategory(data, category)
    THEN Len(data.categories[CHOOSE i \in 1..Len(data.categories) :
                                data.categories[i].key = category].questions)
    ELSE 0

\* The corpus after the try block of add_question, and where it stopped: a document
\* without "categories" raises KeyError before anything changes; one without "metadata"
\* raises after the append.
AddQuestionData(data, category, question, answer) ==
    IF ~data.has_categories THEN [data |-> data, stopped |-> "categories"]
    ELSE LET appended_data ==
                 [data EXCEPT !.categories = AppendEntry(@, category, QA(question, answer))]
         IN  IF ~data.has_metadata THEN [data |-> appended_data, stopped |-> "metadata"]
             ELSE [data |-> [appended_data EXCEPT !.total_questions = @ + 1],
                   stopped |-> "nowhere"]

\* _save_faq_data(): writes the document; an exception while writing (mkdir or open
\* raising) is caught and printed, and the file keeps what it held.
SaveFaqData(file, data, write_ok) ==
    IF write_ok THEN [state |-> "document", content |-> data] ELSE file

\* What add_question returns: True after _save_faq_data returned, False from the except.
AddQuestionReturn(stopped, write_ok) == stopped = "nowhere"

\* add_question taking the appended entry back when the document could not be written.
AddQuestionRollsBack(category, question, answer, write_ok) ==
    /\ call.op = "idle"
    /\ n_adds < MaxAdds
    /\ LET r == AddQuestionData(faq_data, category, question, answer)
           kept == r.stopped = "metadata" \/ (r.stopped = "nowhere" /\ write_ok)
       IN  /\ faq_data' = IF kept THEN r.data ELSE faq_data
           /\ faq_file' = IF r.stopped = "nowhere" THEN SaveFaqData(faq_file, r.data, write_ok)
                          ELSE faq_file
           /\ appended' = IF kept
                          THEN appended \cup {<<category, CategorySize(r.data, category)>>}
                          ELSE appended
           /\ call' = [Idle EXCEPT !.op = "add", !.category = category,
                                   !.question = question, !.answer = answer,
                                   !.path = r.stopped,
                                   !.saved = (r.stopped = "nowhere" /\ write_ok),
                                   !.ret_bool = AddQuestionReturn(r.stopped, write_ok)]
    /\ n_adds' = n_adds + 1
    /\ UNCHANGED services
    /\ UNCHANGED <<model, question_embeddings, questions_list>>

AddQuestion(category, question, answer, write_ok) ==
    /\ call.op = "idle"
    /\ n_adds < MaxAdds
    /\ LET r == AddQuestionData(faq_data, category, question, answer)
       IN  /\ faq_data' = r.data
           /\ faq_file' = IF r.stopped = "nowhere" THEN SaveFaqData(faq_file, r.data, write_ok)
                          ELSE faq_file
           /\ appended' = IF r.stopped = "categories" THEN appended
                          ELSE appended \cup {<<category, CategorySize(r.data, category)>>}
           /\ call' = [Idle EXCEPT !.op = "add", !.category = category,
                                   !.question = question, !.answer = answer,
                                   !.path = r.stopped,
                                   !.saved = (r.stopped = "nowhere" /\ write_ok),
                                   !.ret_bool = AddQuestionReturn(r.stopped, write_ok)]
    /\ n_adds' = n_adds + 1
    /\ UNCHANGED services
    /\ UNCHANGED <<model, question_embeddings, questions_list>>

(***************************************************************************)
(* answer_question                                                         *)
(***************************************************************************)
\* Line 276 without its `not self.model` test.
EmbeddingsUnavailableIgnoresModel(m, embeddings) == embeddings.state = "none"

\* Line 276: `not self.model or self.question_embeddings is None`.
EmbeddingsUnavailable(m, embeddings) == ~m \/ embeddings.state = "none"

\* Whether the embedding path raises: the attribute was never set, model.encode raises,
\* there is no model to call, or there is no row to rank.
EmbeddingRaises(m, embeddings, encode_fails) ==
    \/ embeddings.state # "built"
    \/ ~m
    \/ encode_fails
    \/ Len(embeddings.rows) = 0

\* Lines 295-299: the generic response when the similarity is below 0.3, else the answer.
SelectAnswer(similarity_score, answer) ==
    IF similarity_score < 30 THEN UncertainAnswer ELSE answer

\* answer_question without the except clause of lines 303-305: the exception leaves it.
AnswerExceptReraises(c, encodes, data) ==
    [c EXCEPT !.path = "fallback_except", !.encodes = encodes, !.raised = TRUE]

\* Lines 303-305 answering the generic response themselves instead of calling the
\* lexical fallback.
AnswerExceptGeneric(c, encodes, data) ==
    [c EXCEPT !.path = "fallback_except", !.encodes = encodes, !.ret_text = UncertainAnswer]

\* Lines 303-305: any exception of the embedding path is caught and the query goes to the
\* lexical fallback.
AnswerExcept(c, encodes, data) ==
    [c EXCEPT !.path = "fallback_except", !.encodes = encodes,
              !.ret_text = FallbackAnswerQuestion(c.question, data)]

AnswerQuestionCall(question, encode_fails) ==
    LET c == [Idle EXCEPT !.op = "answer", !.question = question]
    IN  IF EmbeddingsUnavailable(model, question_embeddings)
        THEN [c EXCEPT !.path = "fallback",
                       !.ret_text = FallbackAnswerQuestion(question, faq_data)]
        ELSE IF EmbeddingRaises(model, question_embeddings, encode_fails)
        THEN AnswerExcept(c, IF model /\ question_embeddings.state = "built" THEN 1 ELSE 0,
                          faq_data)
        ELSE LET similarities == Similarities(question, question_embeddings.rows)
                 most_similar_idx == ArgMax(similarities)
                 similarity_score == similarities[most_similar_idx]
                 all_questions == GetAllQuestions(faq_data)
             IN  IF most_similar_idx <= Len(all_questions)
                 THEN [c EXCEPT !.path = "embedding", !.encodes = 1,
                                !.indices = <<most_similar_idx>>,
                                !.scores = <<similarity_score>>,
                                !.ret_text = SelectAnswer(similarity_score,
                                                all_questions[most_similar_idx].answer)]
                 ELSE [c EXCEPT !.path = "fallback_range", !.encodes = 1,
                                !.ret_text = FallbackAnswerQuestion(question, faq_data)]

\* answer_question giving up the cache once the embedding path raised.
AnswerQuestionDisablesOnFailure(question, encode_fails) ==
    /\ call.op = "idle"
    /\ call' = AnswerQuestionCall(question, encode_fails)
    /\ question_embeddings' =
           IF EmbeddingsUnavailable(model, question_embeddings)
              \/ ~EmbeddingRaises(model, question_embeddings, encode_fails)
           THEN question_embeddings ELSE None
    /\ UNCHANGED services
    /\ UNCHANGED <<faq_file, faq_data, model, questions_list, appended, n_adds>>

\* answer_question reading the corpus again from the file before it answers.
AnswerQuestionReloads(question, encode_fails) ==
    /\ call.op = "idle"
    /\ call' = AnswerQuestionCall(question, encode_fails)
    /\ faq_data' = LoadFaqData(faq_file)
    /\ UNCHANGED services
    /\ UNCHANGED <<faq_file, model, question_embeddings, questions_list, appended, n_adds>>

AnswerQuestion(question, encode_fails) ==
    /\ call.op = "idle"
    /\ call' = AnswerQuestionCall(question, encode_fails)
    /\ UNCHANGED services
    /\ UNCHANGED <<faq_file, faq_data, model, question_embeddings, questions_list, appended,
                   n_adds>>

(***************************************************************************)
(* get_similar_questions                                                   *)
(***************************************************************************)
\* Lines 378-386 with the threshold of answer_question applied to the shortlist too.
SimilarResultsAboveThreshold(top_indices, similarities, all_questions) ==
    LET kept == SelectSeq(top_indices,
                          LAMBDA i : i <= Len(all_questions) /\ similarities[i] >= 30)
    IN  [n \in 1..Len(kept) |->
            [question |-> all_questions[kept[n]].question,
             answer |-> all_questions[kept[n]].answer,
             similarity |-> similarities[kept[n]]]] \o <<>>

\* Lines 378-386: the (question, answer, similarity) of every top index that is an index
\* of the flattened corpus.
SimilarResults(top_indices, similarities, all_questions) ==
    LET kept == SelectSeq(top_indices, LAMBDA i : i <= Len(all_questions))
    IN  [n \in 1..Len(kept) |->
            [question |-> all_questions[kept[n]].question,
             answer |-> all_questions[kept[n]].answer,
             similarity |-> similarities[kept[n]]]] \o <<>>

\* Lines 390-392 with the exception raised again instead of answered by the empty list.
SimilarExceptReraises(c, encodes) ==
    [c EXCEPT !.path = "except", !.encodes = encodes, !.raised = TRUE]

\* Lines 390-392: any exception is caught and the empty list is returned.
SimilarExcept(c, encodes) == [c EXCEPT !.path = "except", !.encodes = encodes]

\* The calls get_similar_questions can end in (one for every order torch.topk may give).
GetSimilarQuestionsCalls(question, top_k, encode_fails) ==
    LET c == [Idle EXCEPT !.op = "similar", !.question = question, !.top_k = top_k]
    IN  IF EmbeddingsUnavailable(model, question_embeddings)
        THEN { [c EXCEPT !.path = "unavailable"] }
        ELSE IF \/ EmbeddingRaises(model, question_embeddings, encode_fails)
                \/ Min(top_k, Len(question_embeddings.rows)) < 0
        THEN { SimilarExcept(c, IF model /\ question_embeddings.state = "built"
                                THEN 1 ELSE 0) }
        ELSE LET similarities == Similarities(question, question_embeddings.rows)
                 all_questions == GetAllQuestions(faq_data)
             IN  { [c EXCEPT !.path = "embedding", !.encodes = 1,
                             !.indices = SelectSeq(top_indices,
                                            LAMBDA i : i <= Len(all_questions)),
                             !.scores = [n \in 1..Len(top_indices) |->
                                            similarities[top_indices[n]]] \o <<>>,
                             !.ret_list = SimilarResults(top_indices, similarities,
                                                         all_questions)] :
                   top_indices \in TopK(similarities, Min(top_k, Len(similarities))) }

\* get_similar_questions building the cache again from the current corpus when it returns.
GetSimilarQuestionsRebuilds(question, top_k, encode_fails) ==
    /\ call.op = "idle"
    /\ call' \in GetSimilarQuestionsCalls(question, top_k, encode_fails)
    /\ question_embeddings' = Built(Encode(QuestionsText(faq_data)))
    /\ questions_list' = Built(QuestionsText(faq_data))
    /\ UNCHANGED services
    /\ UNCHANGED <<faq_file, faq_data, model, appended, n_adds>>

GetSimilarQuestions(question, top_k, encode_fails) ==
    /\ call.op = "idle"
    /\ call' \in GetSimilarQuestionsCalls(question, top_k, encode_fails)
    /\ UNCHANGED services
    /\ UNCHANGED <<faq_file, faq_data, model, question_embeddings, questions_list, appended,
                   n_adds>>

\* The call returns to its caller.
Return ==
    /\ call.op # "idle"
    /\ call' = Idle
    /\ UNCHANGED services
    /\ UNCHANGED <<faq_file, faq_data, model, question_embeddings, questions_list, appended,
                   n_adds>>

\* model.encode can raise only where it is called.
EncodeOutcomes == IF EmbeddingsUnavailable(model, question_embeddings) THEN {FALSE} ELSE BOOLEAN

Next ==
    \/ \E input \in AddInputs, write_ok \in BOOLEAN :
          AddQuestion(input.category, input.question, input.answer, write_ok)
    \/ \E question \in Queries, encode_fails \in EncodeOutcomes :
          AnswerQuestion(question, encode_fails)
    \/ \E question \in SimilarQueries, top_k \in TopKs, encode_fails \in EncodeOutcomes :
          GetSimilarQuestions(question, top_k, encode_fails)
    \/ Return

Spec == Init /\ [][Next]_vars

(***************************************************************************)
(* The lexical fallback on its own: a handler whose model failed to        *)
(* construct, loaded from a persisted document of at most two entries in   *)
(* two categories, answering queries.                                      *)
(***************************************************************************)
LexicalEntries ==
    { QA(Q_Upload, A_Upload), QA(Q_Upload, A_Dots), QA(Q_WhatCanDo, A_WhatCanDo),
      QA(Q_Formats, A_Formats), QA(Q_Extract, A_Extract), QA(NewQuestion, NewAnswer),
      QA(NewQuestion, EmptyAnswer) }

LexicalDocument(general, usage) ==
    [has_categories |-> TRUE,
     categories |-> << [key |-> "general", questions |-> general],
                       [key |-> "usage", questions |-> usage] >>,
     has_metadata |-> TRUE,
     total_questions |-> Len(general) + Len(usage)]

LexicalDocuments ==
    {LexicalDocument(<<>>, <<>>)}
    \cup {LexicalDocument(<<e>>, <<>>) : e \in LexicalEntries}
    \cup {LexicalDocument(<<e1>>, <<e2>>) : e1 \in LexicalEntries, e2 \in LexicalEntries}

LexicalInit ==
    /\ faq_file \in {[state |-> "document", content |-> d] : d \in LexicalDocuments}
    /\ faq_data = LoadFaqData(faq_file)
    /\ model = FALSE
    /\ question_embeddings = Unset
    /\ questions_list = Unset
    /\ appended = {}
    /\ n_adds = 0
    /\ call = Idle
    /\ vision = NewVisionAPI(PyNone, PyNone)
    /\ monitor = NewPerformanceMonitor

LexicalNext ==
    \/ \E question \in Queries : AnswerQuestion(question, FALSE)
    \/ Return

LexicalSpec == LexicalInit /\ [][LexicalNext]_vars

(***************************************************************************)
(* Claims.                                                                 *)
(***************************************************************************)
\* Whether a call has returned from the operation op.
Returned(op) == call.op = op

\* The places (category key, position) and the entries of the flattened corpus.
Places == IF faq_data.has_categories THEN FlattenPlaces(faq_data.categories) ELSE <<>>
AllQuestions == GetAllQuestions(faq_data)

\* The entries that were in the corpus when the cache was built, in the flattened order
\* they had then: entries are only ever appended to a category, so these are the entries
\* whose place was not appended since.
CachedEntries ==
    SelectSeq([i \in 1..Len(AllQuestions) |->
                  [place |-> Places[i], question |-> AllQuestions[i].question,
                   answer |-> AllQuestions[i].answer]] \o <<>>,
              LAMBDA e : e.place \notin appended)

\* The flattened indices whose entry the last call returned to its caller: the matched
\* index of a confident answer_question, every listed index of get_similar_questions.
ReturnedIndices ==
    IF call.path # "embedding" THEN {}
    ELSE IF call.op = "answer"
         THEN (IF call.scores[1] >= 30 THEN {call.indices[1]} ELSE {})
         ELSE {call.indices[n] : n \in 1..Len(call.indices)}

\* C1: answer_question never raises and returns a non-empty string, for every query and
\* in every state of the handler, also after add_question added an entry whose answer
\* is empty.
C1_AnswerNonEmpty ==
    Returned("answer") => (~call.raised /\ call.ret_text # <<>>)

\* C2: on the embedding path neither answer_question nor get_similar_questions returns an
\* entry that was appended after the cache was built, whichever category it went to.
C2_AppendedExcluded ==
    \A i \in ReturnedIndices : Places[i] \notin appended

\* C3: row i of the cached matrix denotes the entry looked up at flattened index i: the
\* question it was computed from is the question of entry i of the corpus, also after an
\* add_question to a category that is not the last.
C3_IndexAlignment ==
    question_embeddings.state = "built" =>
        \A i \in 1..Len(question_embeddings.rows) :
            /\ i <= Len(AllQuestions)
            /\ AllQuestions[i].question = questions_list.rows[i]

\* C4 (as stated): every add_question that changed the corpus leaves the cache cleared or
\* holding one vector per current corpus entry.
C4_AddRebuildsCache ==
    (Returned("add") /\ call.path # "categories") =>
        \/ question_embeddings.state # "built"
        \/ Len(question_embeddings.rows) = Len(AllQuestions)

\* C4 (amended): the corpus is changed only by add_question, and add_question leaves the
\* model, the cached embeddings and the cached question texts as they were.
C4_OnlyAddMutatesCacheKept ==
    [][ /\ (faq_data' # faq_data => call'.op = "add")
        /\ (call'.op = "add" =>
               /\ model' = model
               /\ question_embeddings' = question_embeddings
               /\ questions_list' = questions_list) ]_vars

\* An add_question appended an entry and the built cache has fewer rows than the corpus.
C4_Witness ==
    /\ Returned("add")
    /\ call.path = "nowhere"
    /\ question_embeddings.state = "built"
    /\ Len(question_embeddings.rows) < Len(AllQuestions)

\* C5: add_question never raises and returns True only when the entry was appended and
\* the document written; a failed write is reported by False.
C5_SaveFailureReported ==
    Returned("add") => (~call.raised /\ (call.ret_bool => call.saved))

\* C6: once the model is None it stays None; every answer_question is then served by the
\* lexical fallback, every get_similar_questions by the early return, and no call invokes
\* the encoder.
C6_FallbackForLife ==
    [][ ~model =>
           /\ ~model'
           /\ call'.encodes = 0
           /\ (call'.op = "answer" => call'.path = "fallback")
           /\ (call'.op = "similar" => call'.path = "unavailable") ]_vars

\* A handler whose model failed to construct answered a query after an add_question.
C6_Witness ==
    ~model /\ n_adds >= 1 /\ Returned("answer") /\ call.path = "fallback"

\* C7: get_similar_questions never raises, and returns the empty list whenever the model
\* is None or the cache was not built.
C7_SimilarEmptyWhenUnavailable ==
    Returned("similar") =>
        /\ ~call.raised
        /\ ((~model \/ question_embeddings.state # "built") => call.ret_list = <<>>)

\* get_similar_questions was asked for a positive number of results without a built cache.
C7_Witness ==
    Returned("similar") /\ question_embeddings.state # "built" /\ call.top_k > 0

NonIncreasing(results) ==
    \A n \in 1..(Len(results) - 1) : results[n].similarity >= results[n + 1].similarity

\* C8 (as stated): for a non-empty corpus of N entries get_similar_questions(q, k) returns
\* at most min(k, N) results, with non-increasing scores, for every k.
C8_AtMostMinKN ==
    (Returned("similar") /\ Len(AllQuestions) >= 1) =>
        /\ Len(call.ret_list) <= Min(call.top_k, Len(AllQuestions))
        /\ NonIncreasing(call.ret_list)

\* C8 (amended): for a non-empty corpus of N entries get_similar_questions(q, k) returns
\* at most max(0, min(k, N)) results (none for k < 0), with non-increasing scores.
C8_AtMostMinKNOrNone ==
    (Returned("similar") /\ Len(AllQuestions) >= 1) =>
        /\ Len(call.ret_list) <= Max(0, Min(call.top_k, Len(AllQuestions)))
        /\ NonIncreasing(call.ret_list)

\* get_similar_questions returned two results of different scores.
C8_Witness ==
    /\ Returned("similar")
    /\ Len(call.ret_list) = 2
    /\ call.ret_list[1].similarity > call.ret_list[2].similarity

\* C9: on the embedding path answer_question returns the answer of the best-matching
\* entry (the entry whose cached question vector gave the best score) iff that score is
\* >= 0.3, and the uncertain-answer message otherwise.
C9_ConfidentIffThreshold ==
    (Returned("answer") /\ call.path = "embedding") =>
        call.ret_text = IF call.scores[1] >= 30
                        THEN CachedEntries[call.indices[1]].answer
                        ELSE UncertainAnswer

\* C10: in fallback mode with the one-entry corpus, "completely unrelated xyz" gets the
\* uncertain-answer message, and "how do I upload" scores above 0 and gets the entry's
\* answer when its score is above 0.2.
C10_FallbackScenario ==
    (Returned("answer") /\ call.path = "fallback" /\ faq_data = OneEntryFaqData) =>
        /\ (call.question = QueryUnrelated => call.ret_text = UncertainAnswer)
        /\ (call.question = QueryHowUpload =>
               LET score == FallbackScore(QueryHowUpload, QA(Q_Upload, A_Dots))
               IN  /\ FracGreater(score, <<0, 1>>)
                   /\ (FracGreater(score, <<2, 10>>) => call.ret_text = A_Dots))

(***************************************************************************)
(* The lexical fallback as the specification states it.                    *)
(***************************************************************************)
FracEqual(a, b) == a[1] * b[2] = b[1] * a[2]

\* The lowercase whitespace tokens of a text.
Tokens(text) == Split(Lower(text))

\* Whether any token of text appears anywhere in the (lowercased) query text.
AnyTokenAppears(text, query) == \E w \in Tokens(text) : Contains(Lower(query), w)

\* The stated score, as a fraction: the overlap ratio (0 when there is no token at all)
\* plus 5/10 and 3/10 for the two bonuses.
StatedScore(query, entry) ==
    LET common == Tokens(query) \cap Tokens(entry.question)
        largest == Max(Cardinality(Tokens(query)), Cardinality(Tokens(entry.question)))
        den == IF largest = 0 THEN 1 ELSE largest
    IN  << 10 * Cardinality(common)
           + (IF AnyTokenAppears(entry.question, query) THEN 5 * den ELSE 0)
           + (IF AnyTokenAppears(entry.answer, query) THEN 3 * den ELSE 0),
           10 * den >>

\* C11: for the query of every fallback answer and every entry of the corpus, the score
\* the fallback gives the entry is |common tokens| / max(|tokens(query)|,
\* |tokens(question)|), plus 0.5 if a token of the question appears anywhere in the query
\* text, plus 0.3 if a token of the answer appears anywhere in the query text.
C11_ScoreFormula ==
    (Returned("answer") /\ call.path = "fallback") =>
        \A i \in 1..Len(AllQuestions) :
            FracEqual(FallbackScore(call.question, AllQuestions[i]),
                      StatedScore(call.question, AllQuestions[i]))

\* The fallback scored an entry that shares a token with the query and earns both bonuses,
\* and one that earns the question bonus by a substring only.
C11_Witness ==
    /\ Returned("answer")
    /\ call.path = "fallback"
    /\ \E i \in 1..Len(AllQuestions) :
          /\ Tokens(call.question) \cap Tokens(AllQuestions[i].question) # {}
          /\ AnyTokenAppears(AllQuestions[i].question, call.question)
          /\ AnyTokenAppears(AllQuestions[i].answer, call.question)
    /\ \E i \in 1..Len(AllQuestions) :
          /\ Tokens(call.question) \cap Tokens(AllQuestions[i].question) = {}
          /\ AnyTokenAppears(AllQuestions[i].question, call.question)

\* The score of entry i of the corpus for the query of the last call.
ScoreOf(i) == FallbackScore(call.question, AllQuestions[i])

\* The entry with the highest score, the first such entry in flattened order.
Winner ==
    CHOOSE i \in 1..Len(AllQuestions) :
        \A j \in 1..Len(AllQuestions) :
            /\ (j < i => FracGreater(ScoreOf(i), ScoreOf(j)))
            /\ (j > i => ~FracGreater(ScoreOf(j), ScoreOf(i)))

\* C12 (as stated): the fallback returns the answer of the entry with the highest score,
\* the first such entry in flattened order on a tie, and the uncertain-answer message
\* when the winning score is <= 0.2 or the corpus has no entries.
C12_WinnerOrUncertain ==
    (Returned("answer") /\ call.path = "fallback") =>
        call.ret_text =
            IF Len(AllQuestions) = 0 \/ ~FracGreater(ScoreOf(Winner), <<2, 10>>)
            THEN UncertainAnswer
            ELSE AllQuestions[Winner].answer

\* C12 (amended): the same, and the uncertain-answer message also when the answer of the
\* winning entry is empty.
C12_WinnerOrUncertainOrEmpty ==
    (Returned("answer") /\ call.path = "fallback") =>
        call.ret_text =
            IF \/ Len(AllQuestions) = 0
               \/ ~FracGreater(ScoreOf(Winner), <<2, 10>>)
               \/ AllQuestions[Winner].answer = <<>>
            THEN UncertainAnswer
            ELSE AllQuestions[Winner].answer

\* The fallback answered from the first of two entries of different answers whose scores
\* tie above 0.2.
C12_Witness ==
    /\ Returned("answer")
    /\ call.path = "fallback"
    /\ Len(AllQuestions) = 2
    /\ FracEqual(ScoreOf(1), ScoreOf(2))
    /\ FracGreater(ScoreOf(1), <<2, 10>>)
    /\ AllQuestions[1].answer # AllQuestions[2].answer
    /\ AllQuestions[2].answer # <<>>
    /\ call.ret_text = AllQuestions[1].answer

\* C13: whenever answer_question finds the embedding unavailable (no model, no cache, or an
\* exception while the query is embedded or ranked), it does not raise and returns what
\* the lexical fallback returns for the same query on the corpus of that moment.
C13_UnavailableEqualsFallback ==
    [][ (/\ call'.op = "answer"
         /\ (~model \/ question_embeddings.state # "built" \/ call'.path # "embedding")) =>
            /\ ~call'.raised
            /\ call'.ret_text = FallbackAnswerQuestion(call'.question, faq_data) ]_vars

\* An exception of the embedding path was answered by the fallback with the answer of an
\* entry that was added after the cache was built.
C13_Witness ==
    /\ Returned("answer")
    /\ call.path = "fallback_except"
    /\ model
    /\ question_embeddings.state = "built"
    /\ call.ret_text = NewAnswer

\* The entries of a category of a document (none when the category is absent).
CategoryQuestions(data, category) ==
    IF HasCategory(data, category)
    THEN data.categories[CHOOSE i \in 1..Len(data.categories) :
                            data.categories[i].key = category].questions
    ELSE <<>>

RemoveAt(seq, k) == SubSeq(seq, 1, k - 1) \o SubSeq(seq, k + 1, Len(seq))

\* C14: after an add_question(category, q, a) that returned True, the entries of the
\* category are the earlier ones followed by (q, a) (the category exists even if it was
\* absent), get_all_questions is the earlier list with the new entry inserted at the end
\* of its category, and metadata.total_questions is one greater than before.
C14_AddAppendsLast ==
    [][ (call'.op = "add" /\ call'.ret_bool) =>
           LET new == QA(call'.question, call'.answer)
               before == GetAllQuestions(faq_data)
               after == GetAllQuestions(faq_data')
               places == FlattenPlaces(faq_data'.categories)
               size == Len(CategoryQuestions(faq_data', call'.category))
           IN  /\ HasCategory(faq_data', call'.category)
               /\ CategoryQuestions(faq_data', call'.category)
                     = Append(CategoryQuestions(faq_data, call'.category), new)
               /\ \E k \in 1..Len(after) :
                     /\ places[k] = <<call'.category, size>>
                     /\ after[k] = new
                     /\ RemoveAt(after, k) = before
               /\ faq_data'.total_questions = faq_data.total_questions + 1 ]_vars

\* add_question returned True after it created the category "usage" in a document that
\* lacked it, following an earlier add_question to "general".
C14_Witness ==
    /\ Returned("add")
    /\ call.ret_bool
    /\ call.category = "usage"
    /\ Len(faq_data.categories) = 2
    /\ CategorySize(faq_data, "usage") = 1
    /\ Len(AllQuestions) = 3

\* C15: an add_question whose write failed leaves the file as it was and the entry at the
\* end of its category in the in-memory corpus, and no later step removes or changes an
\* entry that was added, so get_all_questions and the fallback keep reading it.
C15_UnsavedEntryKept ==
    [][ /\ (call'.op = "add" /\ call'.path = "nowhere" /\ ~call'.saved) =>
              /\ faq_file' = faq_file
              /\ CategoryQuestions(faq_data', call'.category)
                    = Append(CategoryQuestions(faq_data, call'.category),
                             QA(call'.question, call'.answer))
        /\ \A place \in appended :
              /\ place[2] <= Len(CategoryQuestions(faq_data', place[1]))
              /\ CategoryQuestions(faq_data', place[1])[place[2]]
                    = CategoryQuestions(faq_data, place[1])[place[2]] ]_vars

\* The fallback returned the answer of an added entry that the file does not hold.
C15_Witness ==
    /\ Returned("answer")
    /\ call.path = "fallback"
    /\ call.ret_text = NewAnswer
    /\ \/ faq_file.state # "document"
       \/ \A i \in 1..Len(GetAllQuestions(faq_file.content)) :
             GetAllQuestions(faq_file.content)[i].answer # NewAnswer

\* C16: a handler constructed over a file that is missing, unreadable or not parseable
\* holds, until an add_question changes it, the built-in default corpus: 9 entries in the
\* 3 categories general, analysis and usage, total_questions 9.
C16_DefaultWhenNotLoadable ==
    (n_adds = 0 /\ faq_file.state \in {"missing", "unreadable", "malformed"}) =>
        /\ faq_data.has_categories
        /\ Len(faq_data.categories) = 3
        /\ \A i \in 1..3 :
              /\ faq_data.categories[i].key = <<"general", "analysis", "usage">>[i]
              /\ Len(faq_data.categories[i].questions) = 3
        /\ Len(AllQuestions) = 9
        /\ AllQuestions[1] = QA(Q_WhatCanDo, A_WhatCanDo)
        /\ AllQuestions[9] = QA(Q_Compare, A_Compare)
        /\ faq_data.has_metadata
        /\ faq_data.total_questions = 9

\* A handler constructed over a file that could not be read or parsed answered a query
\* with an answer of the default corpus.
C16_Witness ==
    /\ n_adds = 0
    /\ faq_file.state \in {"unreadable", "malformed"}
    /\ Returned("answer")
    /\ call.ret_text = A_Upload

\* C17: with a corpus of no entries answer_question returns the uncertain-answer message
\* and get_similar_questions the empty list, and neither raises, with and without a model.
C17_EmptyCorpus ==
    Len(AllQuestions) = 0 =>
        /\ Returned("answer") => (~call.raised /\ call.ret_text = UncertainAnswer)
        /\ Returned("similar") => (~call.raised /\ call.ret_list = <<>>)

\* A handler with a model and a cache built from no entries answered a query through the
\* except clause.
C17_Witness ==
    /\ Len(AllQuestions) = 0
    /\ model
    /\ question_embeddings.state = "built"
    /\ Returned("answer")
    /\ call.path = "fallback_except"
    /\ call.question = QueryHowUpload

\* The indices of the k greatest scores in descending order, a tie going to the lowest
\* index: the index in position n is the one preceded by exactly n - 1 others.
Precedes(sims, i, j) == sims[i] > sims[j] \/ (sims[i] = sims[j] /\ i < j)
StableTopK(sims, k) ==
    [n \in 1..k |->
        CHOOSE i \in 1..Len(sims) :
            Cardinality({j \in 1..Len(sims) : Precedes(sims, j, i)}) = n - 1] \o <<>>

\* C18: the indices get_similar_questions ranks are the top k in descending score order
\* with ties broken by the lowest flattened index, a function of the scores alone.
C18_TiesByLowestIndex ==
    (Returned("similar") /\ call.path = "embedding") =>
        LET sims == Similarities(call.question, question_embeddings.rows)
        IN  call.indices = StableTopK(sims, Min(call.top_k, Len(sims)))

\* What answer_question returns for the query of the last call when it is called again in
\* the state that call left, for every way the encoder can behave in the second call.
Again(encode_fails) == AnswerQuestionCall(call.question, encode_fails)

AnswerRank(question) ==
    /\ call.op = "idle"
    /\ ~EmbeddingsUnavailable(model, question_embeddings)
    /\ ~EmbeddingRaises(model, question_embeddings, FALSE)
    /\ LET similarities == Similarities(question, question_embeddings.rows)
           most_similar_idx == ArgMax(similarities)
       IN  call' = [Idle EXCEPT !.op = "answer", !.question = question, !.path = "ranked",
                                !.encodes = 1, !.indices = <<most_similar_idx>>,
                                !.scores = <<similarities[most_similar_idx]>>]
    /\ UNCHANGED services
    /\ UNCHANGED <<faq_file, faq_data, model, question_embeddings, questions_list, appended,
                   n_adds>>

\* add_question called by another thread while the reader is between its two steps.
ConcurrentAddQuestion(category, question, answer, write_ok) ==
    /\ call.op = "answer"
    /\ call.path = "ranked"
    /\ n_adds < MaxAdds
    /\ LET r == AddQuestionData(faq_data, category, question, answer)
       IN  /\ faq_data' = r.data
           /\ faq_file' = IF r.stopped = "nowhere" THEN SaveFaqData(faq_file, r.data, write_ok)
                          ELSE faq_file
           /\ appended' = IF r.stopped = "categories" THEN appended
                          ELSE appended \cup {<<category, CategorySize(r.data, category)>>}
    /\ n_adds' = n_adds + 1
    /\ UNCHANGED services
    /\ UNCHANGED <<model, question_embeddings, questions_list, call>>

\* Lines 291-301: the entry at the ranked index is looked up in the corpus of this moment.
AnswerLookup ==
    /\ call.op = "answer"
    /\ call.path = "ranked"
    /\ LET all_questions == GetAllQuestions(faq_data)
           most_similar_idx == call.indices[1]
       IN  call' = IF most_similar_idx <= Len(all_questions)
                   THEN [call EXCEPT !.path = "embedding",
                                     !.ret_text = SelectAnswer(call.scores[1],
                                                     all_questions[most_similar_idx].answer)]
                   ELSE [call EXCEPT !.path = "fallback_range",
                                     !.ret_text = FallbackAnswerQuestion(call.question,
                                                                         faq_data)]
    /\ UNCHANGED services
    /\ UNCHANGED <<faq_file, faq_data, model, question_embeddings, questions_list, appended,
                   n_adds>>

\* The handlers that were constructed with a model and a cache.
ConcurrentInit == Init /\ model /\ question_embeddings.state = "built"

ConcurrentNext ==
    \/ \E question \in Queries : AnswerRank(question)
    \/ \E input \in AddInputs, write_ok \in BOOLEAN :
          ConcurrentAddQuestion(input.category, input.question, input.answer, write_ok)
    \/ AnswerLookup
    \/ (call.path # "ranked" /\ Return)

ConcurrentSpec == ConcurrentInit /\ [][ConcurrentNext]_vars

\* C21: while an answer_question is between ranking the cache and looking up the entry,
\* no add_question changes the corpus.
C21_ReaderExcluded ==
    [][ (call.op = "answer" /\ call.path = "ranked") => faq_data' = faq_data ]_vars

\* C22: get_similar_questions drops no result for its score: on the embedding path it
\* returns one result for each of the min(k, rows) ranked indices, with the score of that
\* index, whether the score is below 0.3 or not.
C22_ShortlistNotThresholded ==
    (Returned("similar") /\ call.path = "embedding") =>
        /\ Len(call.ret_list) = Min(call.top_k, Len(question_embeddings.rows))
        /\ Len(call.ret_list) = Len(call.scores)
        /\ \A n \in 1..Len(call.ret_list) : call.ret_list[n].similarity = call.scores[n]

\* get_similar_questions returned a shortlist whose best score is below 0.3, for a query
\* that answer_question answers with the uncertain-answer message.
C22_Witness ==
    /\ Returned("similar")
    /\ call.path = "embedding"
    /\ Len(call.ret_list) >= 1
    /\ call.ret_list[1].similarity < 30
    /\ AnswerQuestionCall(call.question, FALSE).path = "embedding"
    /\ AnswerQuestionCall(call.question, FALSE).ret_text = UncertainAnswer

\* C23: in fallback mode with a corpus of 3 entries that holds the question "How do I
\* upload a photo?", the query "upload image" gives every entry with that question a
\* lexical score >= 0.2 and is answered with the answer of such an entry, verbatim.
C23_UploadImageScenario ==
    (/\ Returned("answer")
     /\ call.path = "fallback"
     /\ call.question = QueryUploadImage
     /\ Len(AllQuestions) = 3
     /\ \E i \in 1..3 : AllQuestions[i].question = Q_Upload) =>
        /\ \A i \in 1..3 :
              AllQuestions[i].question = Q_Upload =>
                  ~FracGreater(<<2, 10>>, FallbackScore(QueryUploadImage, AllQuestions[i]))
        /\ \E i \in 1..3 :
              /\ AllQuestions[i].question = Q_Upload
              /\ call.ret_text = AllQuestions[i].answer

\* The scenario happened with the three-entry document, whose upload entry has its full
\* answer text.
C23_Witness ==
    /\ Returned("answer")
    /\ call.path = "fallback"
    /\ call.question = QueryUploadImage
    /\ faq_data = ThreeEntryFaqData
    /\ call.ret_text = A_Upload

\* C24: on the embedding path a query that is the exact question text of an entry of the
\* corpus is answered with the answer of an entry that has that question.
C24_SelfMatchTopOne ==
    (/\ Returned("answer")
     /\ call.path = "embedding"
     /\ \E i \in 1..Len(AllQuestions) : AllQuestions[i].question = call.question) =>
        \E i \in 1..Len(AllQuestions) :
            /\ AllQuestions[i].question = call.question
            /\ call.ret_text = AllQuestions[i].answer

\* The flattened indices of the entries whose question is the one add_question is called
\* with, and whether the corpus holds that question more than once.
NewQuestionIndices == {i \in 1..Len(AllQuestions) : AllQuestions[i].question = NewQuestion}
HasDuplicates == Cardinality(NewQuestionIndices) >= 2

\* Every add_question that appended left an entry with its question, at the place it was
\* appended to, and the entry of the last call is the last of its category.
DuplicatesKept ==
    /\ \A i \in 1..Len(AllQuestions) : (i \in NewQuestionIndices) <=> (Places[i] \in appended)
    /\ Cardinality(NewQuestionIndices) = Cardinality(appended)
    /\ (Returned("add") /\ call.path # "categories") =>
           LET entries == CategoryQuestions(faq_data, call.category)
           IN  entries[Len(entries)] = QA(call.question, call.answer)

\* C25 (as stated): add_question keeps every entry of a repeated question, in insertion
\* order, and all of them are scored: an answer_question or get_similar_questions that
\* ranks the cache ranks one row per entry of the corpus.
C25_DuplicatesKeptAndScored ==
    /\ DuplicatesKept
    /\ (HasDuplicates /\ call.path = "embedding") =>
           Len(question_embeddings.rows) = Len(AllQuestions)

\* C25 (amended): add_question keeps every entry of a repeated question, in insertion
\* order, and the lexical fallback scores all of them: its answer is that of the best
\* scoring entry of the whole corpus, the repeated ones included.
C25_DuplicatesKeptFallbackScored ==
    /\ DuplicatesKept
    /\ (HasDuplicates /\ Returned("answer") /\ call.path = "fallback") =>
           LET scores == [i \in 1..Len(AllQuestions) |-> ScoreOf(i)] \o <<>>
               best == CHOOSE i \in 1..Len(scores) :
                          \A j \in 1..Len(scores) :
                              /\ (j < i => FracGreater(scores[i], scores[j]))
                              /\ (j > i => ~FracGreater(scores[j], scores[i]))
           IN  call.ret_text =
                   IF ~FracGreater(scores[best], <<2, 10>>) \/ AllQuestions[best].answer = <<>>
                   THEN UncertainAnswer
                   ELSE AllQuestions[best].answer

\* The corpus holds the same question twice, with an empty and a non-empty answer, and the
\* fallback returned the answer of the second of the two.
C25_Witness ==
    /\ Returned("answer")
    /\ call.path = "fallback"
    /\ HasDuplicates
    /\ \E i \in NewQuestionIndices, j \in NewQuestionIndices :
          /\ i < j
          /\ AllQuestions[i].answer = EmptyAnswer
          /\ AllQuestions[j].answer = NewAnswer
    /\ call.ret_text = NewAnswer

(***************************************************************************)
(* VisionAPI (src/cloud/vision_api.py).                                    *)
(***************************************************************************)
Label(description) == [has_description |-> TRUE, description |-> description]

\* One element of "responses".
Response(labels, objects, texts, faces) ==
    [labelAnnotations |-> labels, localizedObjectAnnotations |-> objects,
     textAnnotations |-> texts, faceAnnotations |-> faces]

\* _get_mock_response().
MockResponse ==
    [has_responses |-> TRUE,
     responses |-> << Response(<<Label("nature"), Label("landscape"), Label("outdoor")>>,
                               <<"Tree">>, <<"Sample text detected in image">>, 0) >>]

LongText ==
    "0123456789012345678901234567890123456789012345678901234567890123456789"
    \o "0123456789012345678901234567890123456789"

\* What response.json() can give: the mock's shape, a document without "responses", an
\* empty "responses" list, a response without annotations, one with four labels, a long
\* text and two faces, and one whose label has no "description".
ApiResults ==
    { MockResponse,
      [has_responses |-> FALSE, responses |-> <<>>],
      [has_responses |-> TRUE, responses |-> <<>>],
      [has_responses |-> TRUE, responses |-> << Response(<<>>, <<>>, <<>>, 0) >>],
      [has_responses |-> TRUE,
       responses |-> << Response(<<Label("person"), Label("smile"), Label("face"),
                                   Label("portrait")>>, <<>>, <<LongText>>, 2) >>],
      [has_responses |-> TRUE,
       responses |-> << Response(<<[has_description |-> FALSE, description |-> ""]>>,
                                 <<>>, <<>>, 0) >>] }

\* What the request of lines 64-70 can end in: requests.post raising, raise_for_status
\* raising, response.json() raising, or a parsed result.
NetworkOutcomes ==
    {[raises |-> TRUE, result |-> MockResponse]}
    \cup {[raises |-> FALSE, result |-> r] : r \in ApiResults}

\* sep.join(parts)
RECURSIVE Join(_, _)
Join(parts, sep) ==
    IF parts = <<>> THEN ""
    ELSE IF Len(parts) = 1 THEN parts[1]
    ELSE parts[1] \o sep \o Join(Tail(parts), sep)

Take(seq, n) == SubSeq(seq, 1, Min(n, Len(seq)))

Descriptions(labels) == [i \in 1..Len(labels) |-> labels[i].description] \o <<>>
AllDescribed(labels) == \A i \in 1..Len(labels) : labels[i].has_description

\* The digits of a natural number, as str() gives them.
RECURSIVE DecimalDigits(_)
DecimalDigits(n) ==
    IF n < 10 THEN <<"0", "1", "2", "3", "4", "5", "6", "7", "8", "9">>[n + 1]
    ELSE DecimalDigits(n \div 10) \o DecimalDigits(n % 10)

\* _generate_description(): the description, or the exception that leaves it (IndexError
\* for an empty "responses", KeyError for a label without "description").
GenerateDescription(analysis_result) ==
    IF ~analysis_result.has_responses
    THEN [raised |-> FALSE, value |-> "Unable to analyze image"]
    ELSE IF analysis_result.responses = <<>>
    THEN [raised |-> TRUE, value |-> ""]
    ELSE LET response == analysis_result.responses[1]
             labels == response.labelAnnotations
             objects == response.localizedObjectAnnotations
             text_annotations == response.textAnnotations
             faces == response.faceAnnotations
             text_content == IF Len(text_annotations[1]) > 100
                             THEN SubSeq(text_annotations[1], 1, 100) \o "..."
                             ELSE text_annotations[1]
             description_parts ==
                 (IF labels # <<>>
                  THEN <<"This image contains: " \o Join(Descriptions(Take(labels, 3)), ", ")>>
                  ELSE <<>>)
                 \o (IF objects # <<>>
                     THEN <<"Objects detected: " \o Join(Take(objects, 3), ", ")>>
                     ELSE <<>>)
                 \o (IF text_annotations # <<>>
                     THEN <<"Text found: " \o text_content>>
                     ELSE <<>>)
                 \o (IF faces > 0
                     THEN <<"Contains " \o DecimalDigits(faces) \o " face(s)">>
                     ELSE <<>>)
         IN  IF ~AllDescribed(Take(labels, 3))
             THEN [raised |-> TRUE, value |-> ""]
             ELSE IF description_parts # <<>>
             THEN [raised |-> FALSE, value |-> Join(description_parts, ". ")]
             ELSE [raised |-> FALSE, value |-> "No specific details detected in the image"]

\* _extract_labels().
ExtractLabels(analysis_result) ==
    IF ~analysis_result.has_responses
    THEN [raised |-> FALSE, value |-> <<>>]
    ELSE IF analysis_result.responses = <<>>
    THEN [raised |-> TRUE, value |-> <<>>]
    ELSE LET labels == analysis_result.responses[1].labelAnnotations
         IN  IF ~AllDescribed(labels) THEN [raised |-> TRUE, value |-> <<>>]
             ELSE [raised |-> FALSE, value |-> Descriptions(labels)]

\* The except clause of analyze_image, with the exception re-raised.
AnalyzeExceptReraises ==
    [raised |-> TRUE, description |-> "", labels |-> <<>>]

\* The except clause of analyze_image.
AnalyzeExcept ==
    [raised |-> FALSE, description |-> "Error analyzing image", labels |-> <<>>]

\* analyze_image(image_path) on an instance with key `api_key`: `readable` says whether
\* open(image_path, 'rb') succeeds, `outcome` is what the request ends in when one is
\* made.  `posted` says whether requests.post was called.
AnalyzeImageCall(api_key, readable, outcome) ==
    IF ~readable THEN [path |-> "unreadable", posted |-> FALSE, out |-> AnalyzeExcept]
    ELSE LET posted == Truthy(api_key)
             path == IF posted THEN "network" ELSE "mock"
             result == IF posted THEN outcome.result ELSE MockResponse
             description == GenerateDescription(result)
             labels == ExtractLabels(result)
         IN  IF (posted /\ outcome.raises) \/ description.raised \/ labels.raised
             THEN [path |-> path, posted |-> posted, out |-> AnalyzeExcept]
             ELSE [path |-> path, posted |-> posted,
                   out |-> [raised |-> FALSE, description |-> description.value,
                            labels |-> labels.value]]

AnalyzeImage(readable, outcome) ==
    /\ call.op = "idle"
    /\ (readable /\ Truthy(vision.api_key)) => vision.posts < MaxPosts
    /\ LET r == AnalyzeImageCall(vision.api_key, readable, outcome)
       IN  /\ call' = [Idle EXCEPT !.op = "analyze", !.path = r.path,
                                   !.raised = r.out.raised,
                                   !.ret_text = r.out.description,
                                   !.ret_list = r.out.labels]
           /\ vision' = [vision EXCEPT !.posts = @ + (IF r.posted THEN 1 ELSE 0)]
    /\ UNCHANGED monitor
    /\ UNCHANGED <<faq_file, faq_data, model, question_embeddings, questions_list, appended,
                   n_adds>>

\* Reading an attribute of the instance: AttributeError for one __init__ never assigned.
ReadAttribute(name) ==
    /\ call.op = "idle"
    /\ call' = [Idle EXCEPT !.op = "getattr", !.category = name,
                            !.raised = name \notin vision.attributes,
                            !.ret_bool = name = "api_key" /\ vision.api_key.is_none]
    /\ UNCHANGED services
    /\ UNCHANGED <<faq_file, faq_data, model, question_embeddings, questions_list, appended,
                   n_adds>>

\* The api_key arguments and the GOOGLE_CLOUD_VISION_API_KEY values of the environment.
ApiKeyArguments == {PyNone, Str(""), Str("test-api-key")}
EnvironmentKeys == {PyNone, Str("env-api-key")}

VisionInit ==
    /\ faq_file = [state |-> "missing", content |-> BareFaqData]
    /\ faq_data = LoadFaqData(faq_file)
    /\ model = FALSE
    /\ question_embeddings = Unset
    /\ questions_list = Unset
    /\ appended = {}
    /\ n_adds = 0
    /\ call = Idle
    /\ \E api_key \in ApiKeyArguments, env_key \in EnvironmentKeys :
           vision = NewVisionAPI(api_key, env_key)
    /\ monitor = NewPerformanceMonitor

VisionNext ==
    \/ \E readable \in BOOLEAN, outcome \in NetworkOutcomes : AnalyzeImage(readable, outcome)
    \/ \E name \in {"api_key", "base_url", "client"} : ReadAttribute(name)
    \/ Return

VisionSpec == VisionInit /\ [][VisionNext]_vars

MockDescription ==
    "This image contains: nature, landscape, outdoor. Objects detected: Tree. "
    \o "Text found: Sample text detected in image"

\* C26: analyze_image never raises; for a path that cannot be read it returns
\* ("Error analyzing image", []); on an instance without an API key no request is ever
\* posted and a readable image gets the description and the labels of the mock response.
C26_AnalyzeNeverRaises ==
    Returned("analyze") =>
        /\ ~call.raised
        /\ call.path = "unreadable" =>
               call.ret_text = "Error analyzing image" /\ call.ret_list = <<>>
        /\ ~Truthy(vision.api_key) =>
               /\ vision.posts = 0
               /\ call.path \in {"unreadable", "mock"}
               /\ call.path = "mock" =>
                      /\ call.ret_text = MockDescription
                      /\ call.ret_list = <<"nature", "landscape", "outdoor">>

\* C26 happens: an unreadable path was analysed on an instance that has a key and has
\* posted requests before.
C26_Witness ==
    /\ Returned("analyze")
    /\ call.path = "unreadable"
    /\ Truthy(vision.api_key)
    /\ vision.posts = MaxPosts

\* C27: an instance constructed with no key passed and none in the environment has
\* api_key None and a client attribute (whose value is None).
C27_NoKeyNoClient ==
    (vision.passed.is_none /\ vision.env_key.is_none) =>
        /\ vision.api_key.is_none
        /\ "client" \in vision.attributes

(***************************************************************************)
(* GET /faq/list (src/api_docs.py), on the handler shared by the requests. *)
(***************************************************************************)
\* A subscript: an integer position or a string key.
IntKey(n) == [is_str |-> FALSE, int |-> n, text |-> ""]

\* qa[key] on an entry of get_all_questions, a dict with the keys 'question' and
\* 'answer': KeyError for any other key.
Subscript(qa, key) ==
    IF key.is_str /\ key.text \in DOMAIN qa
    THEN [raised |-> FALSE, value |-> qa[key.text]]
    ELSE [raised |-> TRUE, value |-> <<>>]

\* The list comprehension of lines 220-223.
ListItems(all_questions) ==
    LET question(i) == Subscript(all_questions[i], IntKey(0))
        answer(i) == Subscript(all_questions[i], IntKey(1))
    IN  IF \E i \in 1..Len(all_questions) : question(i).raised \/ answer(i).raised
        THEN [raised |-> TRUE, value |-> <<>>]
        ELSE [raised |-> FALSE,
              value |-> [i \in 1..Len(all_questions) |->
                            [question |-> question(i).value, answer |-> answer(i).value]]
                        \o <<>>]

\* FAQList.get: the items with status 200, or api.abort(500) from the except clause.
FaqListGet ==
    /\ call.op = "idle"
    /\ LET items == ListItems(GetAllQuestions(faq_data))
       IN  call' = [Idle EXCEPT !.op = "list",
                                !.path = IF items.raised THEN "500" ELSE "200",
                                !.raised = items.raised,
                                !.ret_list = items.value]
    /\ UNCHANGED services
    /\ UNCHANGED <<faq_file, faq_data, model, question_embeddings, questions_list, appended,
                   n_adds>>

ListNext ==
    \/ \E input \in AddInputs, write_ok \in BOOLEAN :
          AddQuestion(input.category, input.question, input.answer, write_ok)
    \/ FaqListGet
    \/ Return

ListSpec == Init /\ [][ListNext]_vars

\* C28: GET /faq/list ends with status 200 and returns one {question, answer} item for
\* every entry of get_all_questions, in flattened order.
C28_ListReturnsEveryEntry ==
    Returned("list") =>
        /\ call.path = "200"
        /\ Len(call.ret_list) = Len(AllQuestions)
        /\ \A i \in 1..Len(AllQuestions) :
               /\ call.ret_list[i].question = AllQuestions[i].question
               /\ call.ret_list[i].answer = AllQuestions[i].answer

\* The call that just returned entered the embedding path and an exception ended it
\* (model.encode raised, the cache had no row to rank, top_k was negative).
FailedAtCallTime ==
    /\ call.op \in {"answer", "similar"}
    /\ call.path \in {"fallback_except", "except"}
    /\ call.encodes = 1

\* C29: a call-time embedding failure is local to the call.  The call that fails leaves
\* the model reference, the cached embeddings and the cached question list as they were;
\* and in the state it leaves, the next answer_question and get_similar_questions enter
\* the embedding path again (they call model.encode, never the unavailable branch) and,
\* when the encoder works and the cache has a row, answer from the ranking.
C29_FailureIsLocal ==
    /\ [][ (call'.op \in {"answer", "similar"}
            /\ call'.path \in {"fallback_except", "except"} /\ call'.encodes = 1)
           => /\ model' = model
              /\ question_embeddings' = question_embeddings
              /\ questions_list' = questions_list ]_vars
    /\ [](FailedAtCallTime =>
             LET answer == AnswerQuestionCall(Q_Upload, FALSE)
                 similar == GetSimilarQuestionsCalls(Q_Extract, 1, FALSE)
             IN  /\ answer.path # "fallback" /\ answer.encodes = 1
                 /\ \A c \in similar : c.path # "unavailable" /\ c.encodes = 1
                 /\ question_embeddings.rows # <<>> =>
                        /\ answer.path \in {"embedding", "fallback_range"}
                        /\ \A c \in similar : c.path = "embedding")

\* C29 happens: model.encode raised in an answer_question over a cache that has rows.
C29_Witness ==
    /\ Returned("answer")
    /\ FailedAtCallTime
    /\ question_embeddings.rows # <<>>
    /\ AnswerQuestionCall(call.question, FALSE).path = "embedding"

(***************************************************************************)
(* PerformanceMonitor and monitor_operation (src/monitoring.py).           *)
(***************************************************************************)
\* end_operation counting only the calls that succeeded.
EndOperationCallSuccessOnly(m, success) ==
    LET api_calls == m.api_calls + (IF success THEN 1 ELSE 0)
        successful_calls == m.successful_calls + (IF success THEN 1 ELSE 0)
    IN  [m EXCEPT !.api_calls = api_calls,
                  !.successful_calls = successful_calls,
                  !.metrics_history =
                      Append(@, [api_calls |-> api_calls,
                                 success_rate |-> <<100 * successful_calls, api_calls>>,
                                 error_count |-> m.error_calls])]

\* end_operation(operation_name, start_time, success): the monitor it leaves.  The
\* success rate is kept as the exact fraction <<numerator, denominator>>.
EndOperationCall(m, success) ==
    LET api_calls == m.api_calls + 1
        successful_calls == m.successful_calls + (IF success THEN 1 ELSE 0)
        error_calls == m.error_calls + (IF success THEN 0 ELSE 1)
        success_rate == IF api_calls > 0 THEN <<100 * successful_calls, api_calls>>
                        ELSE <<0, 1>>
    IN  [m EXCEPT !.api_calls = api_calls,
                  !.successful_calls = successful_calls,
                  !.error_calls = error_calls,
                  !.metrics_history =
                      Append(@, [api_calls |-> api_calls,
                                 success_rate |-> success_rate,
                                 error_count |-> error_calls])]

\* What a wrapped function can do: return, or raise one of these exceptions.
FunctionOutcomes == {"returns", "ValueError", "RuntimeError"}
OperationNames == {"analyze_image", "faq_search"}

\* The wrapper of monitor_operation around one call of the wrapped function: `path` is
\* what the function did, `ret_list` the exception that leaves the wrapper.
MonitoredCall(operation_name, outcome) ==
    /\ call.op = "idle"
    /\ monitor.api_calls < MaxCalls
    /\ monitor' = EndOperationCall(monitor, outcome = "returns")
    /\ call' = [Idle EXCEPT !.op = "monitored", !.category = operation_name,
                            !.path = outcome,
                            !.raised = (outcome # "returns"),
                            !.ret_list = IF outcome = "returns" THEN <<>> ELSE <<outcome>>]
    /\ UNCHANGED vision
    /\ UNCHANGED <<faq_file, faq_data, model, question_embeddings, questions_list, appended,
                   n_adds>>

\* end_operation called on the monitor directly.
EndOperation(operation_name, success) ==
    /\ call.op = "idle"
    /\ monitor.api_calls < MaxCalls
    /\ monitor' = EndOperationCall(monitor, success)
    /\ call' = [Idle EXCEPT !.op = "end_operation", !.category = operation_name,
                            !.ret_bool = success]
    /\ UNCHANGED vision
    /\ UNCHANGED <<faq_file, faq_data, model, question_embeddings, questions_list, appended,
                   n_adds>>

\* cleanup_old_metrics(max_history): the last max_history entries are kept.
CleanupOldMetrics(max_history) ==
    /\ call.op = "idle"
    /\ call' = [Idle EXCEPT !.op = "cleanup", !.top_k = max_history]
    /\ monitor' =
           [monitor EXCEPT !.metrics_history =
               IF Len(@) > max_history
               THEN SubSeq(@, Len(@) - max_history + 1, Len(@))
               ELSE @]
    /\ UNCHANGED vision
    /\ UNCHANGED <<faq_file, faq_data, model, question_embeddings, questions_list, appended,
                   n_adds>>

MonitorInit ==
    /\ VisionInit
    /\ vision.passed.is_none /\ vision.env_key.is_none

MonitorNext ==
    \/ \E operation_name \in OperationNames, outcome \in FunctionOutcomes :
          MonitoredCall(operation_name, outcome)
    \/ \E operation_name \in OperationNames, success \in BOOLEAN :
          EndOperation(operation_name, success)
    \/ CleanupOldMetrics(2)
    \/ Return

MonitorSpec == MonitorInit /\ [][MonitorNext]_vars

====
